---- MODULE Spec2Model ----
(***************************************************************************)
(* Model of src/patches.rs of cargo-remote: extraction of the local-path   *)
(* patches of a Cargo.toml, workspace deduplication and path rewriting     *)
(* (extract_patched_crates_and_adjust_toml), and the rsync transfers that  *)
(* follow (handle_patches, copy_patches_to_remote).                         *)
(*                                                                         *)
(* Strings are sequences of one-character strings, so that a path is       *)
(* parsed into components, compared, stripped and joined the way           *)
(* std::path does it, and not compared as an opaque value.                 *)
(***************************************************************************)
EXTENDS Integers, Sequences, FiniteSets, TLC

VARIABLES
    manifest_content,    \* the parsed input document, as read from disk
    manifest,            \* the Document being edited in place
    patched_paths,       \* handles <<group, entry>> of the inline tables found
    next_field,          \* position of the for loop over patched_paths
    workspaces_to_copy,  \* Vec<PatchProject>
    pc,                  \* control position of handle_patches
    locate_log,          \* calls of locate_workspace: [path, ok, root]
    field_log,           \* per processed handle: what the planner did with it
    rsync_log,           \* rsync commands issued: [kind, src, dst, outcome]
    copy_idx,            \* position of the for loop over projects_to_copy
    maybe_patches        \* what the planner returned: "pending", "None", "Some"

vars == <<manifest_content, manifest, patched_paths, next_field,
          workspaces_to_copy, pc, locate_log, field_log, rsync_log, copy_idx,
          maybe_patches>>

(***************************************************************************)
(* Bounds of the model.                                                    *)
(***************************************************************************)
MaxEntries == 3     \* crate overrides in the whole patch section
MaxGroups == 2      \* [patch.<source>] groups

(***************************************************************************)
(* Strings and std::path.                                                  *)
(***************************************************************************)
Sep == "/"

RootDir == <<Sep>>          \* Component::RootDir
ParentDir == <<".", ".">>   \* Component::ParentDir

Last(s) == s[Len(s)]

DropFirst(s, n) == SubSeq(s, n + 1, Len(s))

IsPrefixSeq(a, b) == Len(a) <= Len(b) /\ SubSeq(b, 1, Len(a)) = a

\* Path::is_absolute (unix): the string starts with the separator
IsAbsolute(p) == Len(p) > 0 /\ p[1] = Sep

\* The names between separators; empty names (repeated or trailing
\* separators) are dropped, as Path::components does.
RECURSIVE SplitNames(_, _)
SplitNames(s, cur) ==
    IF s = <<>> THEN (IF cur = <<>> THEN <<>> ELSE <<cur>>)
    ELSE IF Head(s) = Sep
         THEN (IF cur = <<>> THEN <<>> ELSE <<cur>>) \o SplitNames(Tail(s), <<>>)
         ELSE SplitNames(Tail(s), Append(cur, Head(s)))

\* Path::components
Components(p) ==
    (IF IsAbsolute(p) THEN <<RootDir>> ELSE <<>>) \o SplitNames(p, <<>>)

\* (mutation) a prefix test on the text of the paths
RawStartsWith(p, base) == IsPrefixSeq(base, p)

\* Path::starts_with: base's components are a prefix of p's components
StartsWith(p, base) == IsPrefixSeq(Components(base), Components(p))

\* The text of a relative sequence of components
RECURSIVE JoinNames(_)
JoinNames(cs) ==
    IF cs = <<>> THEN <<>>
    ELSE IF Len(cs) = 1 THEN cs[1]
    ELSE cs[1] \o <<Sep>> \o JoinNames(Tail(cs))

\* Path::strip_prefix: Err (None) unless p starts with base, else the rest
None == [some |-> FALSE]
Some(v) == [some |-> TRUE, val |-> v]

\* (mutation) strip_prefix that does not check the prefix
StripPrefixUnchecked(p, base) ==
    Some(JoinNames(DropFirst(Components(p), Len(Components(base)))))

StripPrefix(p, base) ==
    IF StartsWith(p, base)
    THEN Some(JoinNames(DropFirst(Components(p), Len(Components(base)))))
    ELSE None

\* Path::file_name: the last component when it is a normal one
FileName(p) ==
    LET cs == Components(p) IN
    IF cs = <<>> \/ Last(cs) = RootDir \/ Last(cs) = ParentDir
    THEN None
    ELSE Some(Last(cs))

\* (mutation) push that forgets the separator
PushNoSep(buf, p) == IF IsAbsolute(p) THEN p ELSE buf \o p

\* PathBuf::push: an absolute path replaces the buffer; otherwise a
\* separator is added unless the buffer already ends with one
Push(buf, p) ==
    IF IsAbsolute(p) THEN p
    ELSE IF buf = <<>> \/ Last(buf) = Sep THEN buf \o p
    ELSE buf \o <<Sep>> \o p

(***************************************************************************)
(* The inputs: manifests, and the answers of the workspace locator.        *)
(***************************************************************************)
Str(s) == [str |-> TRUE, s |-> s]
NotAString == [str |-> FALSE, s |-> <<>>]

P_a_s == <<"/", "a", "/", "s">>
P_a_t_u == <<"/", "a", "/", "t", "/", "u">>
P_a2 == <<"/", "a", "2">>
P_b_a_s == <<"/", "b", "/", "a", "/", "s">>
GitUrl == <<"g">>

R_a == <<"/", "a">>
R_a_t == <<"/", "a", "/", "t">>
R_a2 == <<"/", "a", "2">>
R_b_a == <<"/", "b", "/", "a">>
R_root == <<"/">>

\* One crate override of a patch group: how it is written (an inline table
\* `c = { .. }` or a regular table `[patch.x.c]`), its key and the value.
EntryPool ==
    { [form |-> "inline", key |-> "path", val |-> Str(p)]
        : p \in {P_a_s, P_a_t_u, P_a2, P_b_a_s} }
    \cup { [form |-> "inline", key |-> "git", val |-> Str(GitUrl)],
           [form |-> "table", key |-> "path", val |-> Str(P_a_s)],
           [form |-> "inline", key |-> "path", val |-> NotAString] }

LocatorRoots == {R_a, R_a_t, R_a2, R_b_a, R_root}

SeqsUpTo(S, n) == UNION {[1..k -> S] : k \in 0..n}

\* The entries es cut into consecutive groups: a group ends after entry k
\* for each k in cuts, and the last group ends with es.
RECURSIVE SplitAt(_, _, _, _)
SplitAt(es, cuts, start, k) ==
    IF k > Len(es)
    THEN (IF start > Len(es) THEN <<>>
          ELSE <<[form |-> "table", entries |-> SubSeq(es, start, Len(es))]>>)
    ELSE IF k \in cuts
         THEN <<[form |-> "table", entries |-> SubSeq(es, start, k)]>>
              \o SplitAt(es, cuts, k + 1, k + 1)
         ELSE SplitAt(es, cuts, start, k + 1)

Cuts(n) == {c \in SUBSET (1..(n - 1)) : Cardinality(c) < MaxGroups}

\* `patch` is absent, a table, or some other item (e.g. patch = { .. }).
\* The groups [patch.<source>] of a patch table are written as tables and
\* hold at least one crate override each.
Doc(kind, gs) == [patch |-> kind, groups |-> gs, hello |-> <<"t">>]

InputDocs ==
    {Doc("absent", <<>>), Doc("value", <<>>)}
    \cup {Doc("table", SplitAt(es, c, 1, 1))
            : es \in SeqsUpTo(EntryPool, MaxEntries), c \in Cuts(MaxEntries)}

BuildServer == <<"h">>
BuildPath == <<"b">>
TmpCargoFile == <<"t">>

(***************************************************************************)
(* extract_patched_crates_and_adjust_toml                                  *)
(***************************************************************************)
PatchProject(name, path, remote_path) ==
    [name |-> name, local_path |-> path, remote_path |-> remote_path]

\* Item::as_table_mut / Item::as_inline_table_mut
AsTable(item) == item.form = "table"
AsInlineTable(item) == item.form = "inline"

\* The handles of one group, in document order
RECURSIVE GroupHandles(_, _, _)
GroupHandles(doc, g, e) ==
    IF e > Len(doc.groups[g].entries) THEN <<>>
    ELSE (IF AsInlineTable(doc.groups[g].entries[e]) THEN <<(<<g, e>>)>> ELSE <<>>)
         \o GroupHandles(doc, g, e + 1)

RECURSIVE AllHandles(_, _)
AllHandles(doc, g) ==
    IF g > Len(doc.groups) THEN <<>>
    ELSE (IF AsTable(doc.groups[g]) THEN GroupHandles(doc, g, 1) ELSE <<>>)
         \o AllHandles(doc, g + 1)

\* (mutation) a missing patch section counts as an empty one
PatchedPathsOrEmpty(doc) ==
    IF doc.patch = "table" THEN Some(AllHandles(doc, 1)) ELSE Some(<<>>)

\* patched_paths: None unless manifest["patch"] is a table
PatchedPaths(doc) ==
    IF doc.patch = "table" THEN Some(AllHandles(doc, 1)) ELSE None

EntryAt(doc, h) == doc.groups[h[1]].entries[h[2]]

\* (mutation) any key of the table is taken for its path
GetAnyKey(entry) == Some(entry.val)

\* inline_crate_table.get("path")
GetPath(entry) == IF entry.key = "path" THEN Some(entry.val) ELSE None

\* (mutation) the table is removed and inserted again as the last item of
\* its group
InsertPathMoved(doc, h, s) ==
    LET es == doc.groups[h[1]].entries
        e == [es[h[2]] EXCEPT !.key = "path", !.val = Str(s)]
    IN [doc EXCEPT !.groups[h[1]].entries =
          Append(SubSeq(es, 1, h[2] - 1) \o SubSeq(es, h[2] + 1, Len(es)), e)]

\* inline_crate_table.insert("path", Value::from(s))
InsertPath(doc, h, s) ==
    [doc EXCEPT !.groups[h[1]].entries[h[2]] =
        [@ EXCEPT !.key = "path", !.val = Str(s)]]

\* (mutation) the search never finds a known workspace
KnownWorkspaceNever(ws, path) == 0

\* (mutation) the last known workspace containing path is taken
KnownWorkspaceLast(ws, path) ==
    LET hits == {i \in 1..Len(ws) : StartsWith(path, ws[i].local_path)} IN
    IF hits = {} THEN 0 ELSE CHOOSE i \in hits : \A j \in hits : i >= j

\* workspaces_to_copy.iter().find(|t| path.starts_with(&t.local_path)):
\* the index of the first known workspace containing path, 0 when none
KnownWorkspace(ws, path) ==
    LET hits == {i \in 1..Len(ws) : StartsWith(path, ws[i].local_path)} IN
    IF hits = {} THEN 0 ELSE CHOOSE i \in hits : \A j \in hits : i <= j

\* What locate_workspace may answer: Ok(root) or Err
LocateAnswers == {[ok |-> FALSE, root |-> <<>>]}
                 \cup {[ok |-> TRUE, root |-> r] : r \in LocatorRoots}

\* PathBuf::from("../") with the workspace folder name pushed
RemoteFolder(name) == Push(<<".", ".", Sep>>, name)

\* (mutation) a field the locator cannot place is left alone
UnknownArmIgnoringErr(doc, ws, h, path, ans) ==
    IF ~ans.ok \/ ~FileName(ans.root).some \/ ~StripPrefix(path, ans.root).some
    THEN [panic |-> FALSE, doc |-> doc, ws |-> ws]
    ELSE
      LET remote_folder == Push(<<".", ".", Sep>>, FileName(ans.root).val) IN
      [panic |-> FALSE,
       doc |-> InsertPath(doc, h,
                 Push(remote_folder, StripPrefix(path, ans.root).val)),
       ws |-> Append(ws, PatchProject(FileName(ans.root).val, ans.root,
                                      remote_folder))]

\* (mutation) the new workspace is put in front of the list
UnknownArmPushFront(doc, ws, h, path, ans) ==
    IF ~ans.ok \/ ~FileName(ans.root).some
    THEN [panic |-> TRUE, doc |-> doc, ws |-> ws]
    ELSE
      LET remote_folder == Push(<<".", ".", Sep>>, FileName(ans.root).val)
          pushed == <<PatchProject(FileName(ans.root).val, ans.root,
                                   remote_folder)>> \o ws
          rel == StripPrefix(path, ans.root)
      IN IF ~rel.some THEN [panic |-> TRUE, doc |-> doc, ws |-> pushed]
         ELSE [panic |-> FALSE,
               doc |-> InsertPath(doc, h, Push(remote_folder, rel.val)),
               ws |-> pushed]

\* The None arm of the match, for the locator's answer `ans`: the document
\* and the workspace list it leaves, and whether it panicked on the way
\* (expect on the locator's Err, unwrap on file_name, expect on
\* strip_prefix, which comes after the push onto workspaces_to_copy).
UnknownArm(doc, ws, h, path, ans) ==
    IF ~ans.ok THEN [panic |-> TRUE, doc |-> doc, ws |-> ws]
    ELSE IF ~FileName(ans.root).some THEN [panic |-> TRUE, doc |-> doc, ws |-> ws]
    ELSE
      LET workspace_folder_name == FileName(ans.root).val
          remote_folder == RemoteFolder(workspace_folder_name)
          pushed == Append(ws, PatchProject(workspace_folder_name, ans.root,
                                            remote_folder))
          rel == StripPrefix(path, ans.root)
      IN IF ~rel.some THEN [panic |-> TRUE, doc |-> doc, ws |-> pushed]
         ELSE [panic |-> FALSE,
               doc |-> InsertPath(doc, h, Push(remote_folder, rel.val)),
               ws |-> pushed]

\* The Some(patch_target) arm of the match
KnownArm(doc, ws, h, path, i) ==
    LET rel == StripPrefix(path, ws[i].local_path) IN
    IF ~rel.some THEN [panic |-> TRUE, doc |-> doc, ws |-> ws]
    ELSE [panic |-> FALSE,
          doc |-> InsertPath(doc, h, Push(ws[i].remote_path, rel.val)),
          ws |-> ws]

Init ==
    /\ manifest_content \in InputDocs
    /\ manifest = manifest_content
    /\ patched_paths = <<>>
    /\ next_field = 1
    /\ workspaces_to_copy = <<>>
    /\ pc = "extract"
    /\ locate_log = <<>>
    /\ field_log = <<>>
    /\ rsync_log = <<>>
    /\ copy_idx = 1
    /\ maybe_patches = "pending"

\* Parse the manifest and collect the inline tables of the patch section;
\* without a patch table the planner returns None and handle_patches
\* returns Ok(()) without doing anything else.
Extract ==
    /\ pc = "extract"
    /\ IF PatchedPaths(manifest).some
       THEN /\ patched_paths' = PatchedPaths(manifest).val
            /\ pc' = "plan"
            /\ UNCHANGED maybe_patches
       ELSE /\ maybe_patches' = "None"
            /\ pc' = "done"
            /\ UNCHANGED patched_paths
    /\ UNCHANGED <<manifest_content, manifest, next_field, workspaces_to_copy,
                   locate_log, field_log, rsync_log, copy_idx>>

\* One iteration of the loop over patched_paths whose table has no `path`
SkipField ==
    /\ pc = "plan"
    /\ next_field <= Len(patched_paths)
    /\ LET h == patched_paths[next_field] IN
        /\ ~GetPath(EntryAt(manifest, h)).some
        /\ field_log' = Append(field_log,
              [handle |-> h, how |-> "skipped", path |-> <<>>, ws |-> 0])
    /\ next_field' = next_field + 1
    /\ UNCHANGED <<manifest_content, manifest, patched_paths, workspaces_to_copy,
                   pc, locate_log, rsync_log, copy_idx, maybe_patches>>

\* One iteration whose `path` is not a string: as_str().unwrap() panics
PathNotString ==
    /\ pc = "plan"
    /\ next_field <= Len(patched_paths)
    /\ LET got == GetPath(EntryAt(manifest, patched_paths[next_field])) IN
        got.some /\ ~got.val.str
    /\ pc' = "panic"
    /\ UNCHANGED <<manifest_content, manifest, patched_paths, next_field,
                   workspaces_to_copy, locate_log, field_log, rsync_log,
                   copy_idx, maybe_patches>>

\* One iteration whose path lies in a workspace already known
RewriteKnown ==
    /\ pc = "plan"
    /\ next_field <= Len(patched_paths)
    /\ LET h == patched_paths[next_field]
           got == GetPath(EntryAt(manifest, h))
       IN /\ got.some /\ got.val.str
          /\ KnownWorkspace(workspaces_to_copy, got.val.s) # 0
          /\ LET i == KnownWorkspace(workspaces_to_copy, got.val.s)
                 r == KnownArm(manifest, workspaces_to_copy, h, got.val.s, i)
             IN /\ manifest' = r.doc
                /\ workspaces_to_copy' = r.ws
                /\ pc' = IF r.panic THEN "panic" ELSE "plan"
                /\ next_field' = IF r.panic THEN next_field ELSE next_field + 1
                /\ field_log' = IF r.panic THEN field_log
                                ELSE Append(field_log,
                                       [handle |-> h, how |-> "known",
                                        path |-> got.val.s, ws |-> i])
    /\ UNCHANGED <<manifest_content, patched_paths, locate_log, rsync_log,
                   copy_idx, maybe_patches>>

\* One iteration whose path lies in no known workspace: ask the locator
RewriteUnknown ==
    /\ pc = "plan"
    /\ next_field <= Len(patched_paths)
    /\ LET h == patched_paths[next_field]
           got == GetPath(EntryAt(manifest, h))
       IN /\ got.some /\ got.val.str
          /\ KnownWorkspace(workspaces_to_copy, got.val.s) = 0
          /\ \E ans \in LocateAnswers :
               LET r == UnknownArm(manifest, workspaces_to_copy, h, got.val.s, ans)
               IN /\ locate_log' = Append(locate_log,
                        [path |-> got.val.s, ok |-> ans.ok, root |-> ans.root])
                  /\ manifest' = r.doc
                  /\ workspaces_to_copy' = r.ws
                  /\ pc' = IF r.panic THEN "panic" ELSE "plan"
                  /\ next_field' = IF r.panic THEN next_field ELSE next_field + 1
                  /\ field_log' = IF r.panic THEN field_log
                                  ELSE Append(field_log,
                                         [handle |-> h, how |-> "located",
                                          path |-> got.val.s,
                                          ws |-> Len(r.ws)])
    /\ UNCHANGED <<manifest_content, patched_paths, rsync_log, copy_idx,
                   maybe_patches>>

\* The planner returns Some((manifest, workspaces_to_copy)); handle_patches
\* writes the document to a temporary file, which may fail (expect)
WriteTmpCargoFile ==
    /\ pc = "plan"
    /\ next_field > Len(patched_paths)
    /\ maybe_patches' = "Some"
    /\ \E written \in BOOLEAN : pc' = IF written THEN "copy" ELSE "panic"
    /\ UNCHANGED <<manifest_content, manifest, patched_paths, next_field,
                   workspaces_to_copy, locate_log, field_log, rsync_log, copy_idx>>

(***************************************************************************)
(* copy_patches_to_remote                                                  *)
(***************************************************************************)
\* Command::output(): Err when rsync could not be started; otherwise Ok
\* with the exit status of rsync, successful or not
RsyncOutcomes == {"spawn_error", "exit_ok", "exit_failure"}

\* unwrap_or_else(|e| exit(-4)) on the result of Command::output()
IsFatal(outcome) == outcome = "spawn_error"

LocalProjPath(p) == p.local_path \o <<Sep>>
RemoteProjPath(p) == BuildServer \o <<":">> \o p.remote_path
RemoteTomlPath ==
    BuildServer \o <<":">> \o BuildPath \o <<Sep, "C">>

\* One iteration of the loop over projects_to_copy
CopyWorkspace ==
    /\ pc = "copy"
    /\ copy_idx <= Len(workspaces_to_copy)
    /\ \E outcome \in RsyncOutcomes :
        /\ rsync_log' = Append(rsync_log,
              [kind |-> "workspace", idx |-> copy_idx,
               src |-> LocalProjPath(workspaces_to_copy[copy_idx]),
               dst |-> RemoteProjPath(workspaces_to_copy[copy_idx]),
               outcome |-> outcome])
        /\ pc' = IF IsFatal(outcome) THEN "exit" ELSE "copy"
        /\ copy_idx' = IF IsFatal(outcome) THEN copy_idx ELSE copy_idx + 1
    /\ UNCHANGED <<manifest_content, manifest, patched_paths, next_field,
                   workspaces_to_copy, locate_log, field_log, maybe_patches>>

\* (mutation) the Cargo.toml is transferred without waiting for the loop
CopyTomlBeforeLoopEnd ==
    /\ pc = "copy"
    /\ \E outcome \in RsyncOutcomes :
        /\ rsync_log' = Append(rsync_log,
              [kind |-> "toml", idx |-> 0,
               src |-> TmpCargoFile, dst |-> RemoteTomlPath,
               outcome |-> outcome])
        /\ pc' = IF IsFatal(outcome) THEN "exit" ELSE "done"
    /\ UNCHANGED <<manifest_content, manifest, patched_paths, next_field,
                   workspaces_to_copy, locate_log, field_log, copy_idx,
                   maybe_patches>>

\* The transfer of the patched Cargo.toml, after the loop
CopyToml ==
    /\ pc = "copy"
    /\ copy_idx > Len(workspaces_to_copy)
    /\ \E outcome \in RsyncOutcomes :
        /\ rsync_log' = Append(rsync_log,
              [kind |-> "toml", idx |-> 0,
               src |-> TmpCargoFile, dst |-> RemoteTomlPath,
               outcome |-> outcome])
        /\ pc' = IF IsFatal(outcome) THEN "exit" ELSE "done"
    /\ UNCHANGED <<manifest_content, manifest, patched_paths, next_field,
                   workspaces_to_copy, locate_log, field_log, copy_idx,
                   maybe_patches>>

Next ==
    \/ Extract
    \/ SkipField
    \/ PathNotString
    \/ RewriteKnown
    \/ RewriteUnknown
    \/ WriteTmpCargoFile
    \/ CopyWorkspace
    \/ CopyToml

Spec == Init /\ [][Next]_vars

(***************************************************************************)
(* Properties.                                                             *)
(***************************************************************************)
Planned == maybe_patches = "Some"

WorkspaceCopies == SelectSeq(rsync_log, LAMBDA r : r.kind = "workspace")

Rewritten == {k \in 1..Len(field_log) : field_log[k].how # "skipped"}

\* Every root the locator returned so far is a component-wise prefix of
\* the path it was asked about
LocatorWithinPath ==
    \A k \in 1..Len(locate_log) :
        locate_log[k].ok =>
            IsPrefixSeq(Components(locate_log[k].root),
                        Components(locate_log[k].path))

\* C1: with a locator whose roots are component-wise prefixes of the
\* queried paths, no two entries of the workspace list have the same
\* local_path, no workspace is copied twice, and a run that completes has
\* issued exactly one copy per entry, from that entry's directory.
C1_EachWorkspaceOnce ==
    LocatorWithinPath =>
        /\ \A i, j \in 1..Len(workspaces_to_copy) :
              i # j => workspaces_to_copy[i].local_path
                        # workspaces_to_copy[j].local_path
        /\ \A i, j \in 1..Len(WorkspaceCopies) :
              i # j => WorkspaceCopies[i].src # WorkspaceCopies[j].src
        /\ Len(WorkspaceCopies) <= Len(workspaces_to_copy)
        /\ (Planned /\ pc = "done") =>
              /\ Len(WorkspaceCopies) = Len(workspaces_to_copy)
              /\ \A i \in 1..Len(workspaces_to_copy) :
                    WorkspaceCopies[i].src
                      = workspaces_to_copy[i].local_path \o <<"/">>

\* Two fields of different patch groups were resolved to the same single
\* workspace, and the run completed with one workspace copy.
C1_Witness ==
    /\ pc = "done"
    /\ Len(workspaces_to_copy) = 1
    /\ Len(WorkspaceCopies) = 1
    /\ \E k, l \in Rewritten :
          /\ field_log[k].handle[1] # field_log[l].handle[1]
          /\ field_log[k].how = "located"
          /\ field_log[l].how = "known"

\* C2: in any plan, two entries with different local_path have different
\* remote_path.
C2_DistinctRemotePaths ==
    Planned =>
        \A i, j \in 1..Len(workspaces_to_copy) :
            workspaces_to_copy[i].local_path # workspaces_to_copy[j].local_path
            => workspaces_to_copy[i].remote_path
                 # workspaces_to_copy[j].remote_path

DotDotSlash == <<".", ".", "/">>

\* C3: after planning, every crate override of the patch section that has
\* a string-valued `path`, however its table is written, holds a value that
\* starts with ../ and is no longer its original local path.
C3_EveryPathRewritten ==
    Planned =>
        \A g \in 1..Len(manifest.groups) :
            \A e \in 1..Len(manifest.groups[g].entries) :
                LET new == manifest.groups[g].entries[e]
                    old == manifest_content.groups[g].entries[e]
                IN (old.key = "path" /\ old.val.str) =>
                      /\ new.val.str
                      /\ IsPrefixSeq(DotDotSlash, new.val.s)
                      /\ new.val.s # old.val.s

\* The text of a path after the first n characters
TextAfter(p, n) == SubSeq(p, n + 1, Len(p))

\* C4: the new value of a rewritten field with original path P is the
\* remote_path of the workspace W it was resolved to, joined with P less
\* W.local_path, where W.local_path is a component prefix of P and
\* W.remote_path is ../<last segment of W.local_path>; with the roots /a and
\* /a2 the fields /a/s, /a/t/u, /a2 become ../a/s, ../a/t/u, ../a2/ and the
\* plan holds exactly the projects a and a2.
C4_RewrittenValue ==
    /\ \A k \in Rewritten :
          LET r == field_log[k]
              W == workspaces_to_copy[r.ws]
              new == EntryAt(manifest, r.handle).val.s
              wc == Components(W.local_path)
              rc == Components(r.path)
              n == Len(wc)
          IN /\ SubSeq(rc, 1, n) = wc
             /\ W.remote_path = DotDotSlash \o Last(wc)
             /\ W.name = Last(wc)
             /\ Components(new) = <<ParentDir, W.name>> \o DropFirst(rc, n)
             /\ IsPrefixSeq(W.remote_path \o <<"/">>, new)
             /\ TextAfter(new, Len(W.remote_path))
                  = IF r.path = W.local_path THEN <<"/">>
                    ELSE TextAfter(r.path, Len(W.local_path))
    /\ ( /\ Planned
         /\ [k \in 1..Len(field_log) |-> field_log[k].path]
              = <<P_a_s, P_a_t_u, P_a2>>
         /\ [k \in 1..Len(locate_log) |-> locate_log[k].root] = <<R_a, R_a2>> )
       => /\ [k \in 1..Len(field_log) |->
                 EntryAt(manifest, field_log[k].handle).val.s]
               = << <<".", ".", "/", "a", "/", "s">>,
                    <<".", ".", "/", "a", "/", "t", "/", "u">>,
                    <<".", ".", "/", "a", "2", "/">> >>
          /\ [k \in 1..Len(workspaces_to_copy) |-> workspaces_to_copy[k].name]
               = << <<"a">>, <<"a", "2">> >>

\* The plan of /a/s, /a/t/u and /a2 with the roots /a and /a2 is complete
C4_Witness ==
    /\ Planned
    /\ [k \in 1..Len(field_log) |-> field_log[k].path]
         = <<P_a_s, P_a_t_u, P_a2>>
    /\ [k \in 1..Len(locate_log) |-> locate_log[k].root] = <<R_a, R_a2>>
    /\ field_log[2].how = "known"

\* C5: a workspace copy that reports an error of any kind ends the run: it
\* is the last command issued and the process has exited.
C5_AnyCopyFailureFatal ==
    \A k \in 1..Len(rsync_log) :
        (rsync_log[k].kind = "workspace" /\ rsync_log[k].outcome # "exit_ok")
        => (k = Len(rsync_log) /\ pc = "exit")

\* C6: without a patch section the planner returns None, the locator is
\* not invoked, nothing is transferred, and the manifest is unchanged.
C6_NoPatchNoOp ==
    (manifest_content.patch = "absent" /\ pc # "extract") =>
        /\ pc = "done"
        /\ maybe_patches = "None"
        /\ locate_log = <<>>
        /\ rsync_log = <<>>
        /\ workspaces_to_copy = <<>>
        /\ manifest = manifest_content

C6_Witness == manifest_content.patch = "absent" /\ pc = "done"

\* The handle being processed belongs to an entry without a `path` key
AtNonPathField ==
    /\ pc = "plan"
    /\ next_field <= Len(patched_paths)
    /\ EntryAt(manifest_content, patched_paths[next_field]).key # "path"

\* C7: an entry without a `path` key keeps its content throughout, and the
\* step that processes it invokes no locator and adds no workspace,
\* wherever it stands among the path entries.
C7_NonPathPassThrough ==
    /\ [](\A g \in 1..Len(manifest_content.groups) :
            \A e \in 1..Len(manifest_content.groups[g].entries) :
               manifest_content.groups[g].entries[e].key # "path"
               => manifest.groups[g].entries[e]
                    = manifest_content.groups[g].entries[e])
    /\ [][AtNonPathField =>
            /\ manifest' = manifest
            /\ workspaces_to_copy' = workspaces_to_copy
            /\ locate_log' = locate_log
            /\ pc' = "plan"]_vars

\* A git entry was passed between two rewritten path entries
C7_Witness ==
    /\ Len(field_log) = 3
    /\ field_log[1].how = "located"
    /\ field_log[2].how = "skipped"
    /\ field_log[3].how # "skipped"
    /\ EntryAt(manifest, field_log[2].handle).key = "git"

\* The text of base, followed by a separator or by nothing, starts p
TextInside(p, base) ==
    /\ Len(base) <= Len(p)
    /\ \A n \in 1..Len(base) : p[n] = base[n]
    /\ (Len(p) > Len(base) => p[Len(base) + 1] = "/")

\* C8: a field is resolved to a known workspace only if the workspace's
\* path, up to a component boundary, starts the field's path; /a2 is never
\* resolved to a known workspace /a: it is resolved to a known /a2 or by
\* a call of the locator.
C8_PrefixSafety ==
    \A k \in 1..Len(field_log) :
        LET r == field_log[k] IN
        /\ r.how = "known" =>
              TextInside(r.path, workspaces_to_copy[r.ws].local_path)
        /\ (r.path = P_a2 /\ r.how = "known") =>
              workspaces_to_copy[r.ws].local_path = R_a2
        /\ r.how = "located" =>
              \E c \in 1..Len(locate_log) :
                  /\ locate_log[c].path = r.path
                  /\ locate_log[c].root = workspaces_to_copy[r.ws].local_path

\* /a2 went to the locator although the workspace /a was known
C8_Witness ==
    /\ Len(field_log) >= 2
    /\ Len(locate_log) >= 2
    /\ workspaces_to_copy[1].local_path = R_a
    /\ field_log[2].path = P_a2
    /\ field_log[2].how = "located"
    /\ locate_log[2].path = P_a2

\* a is a component-wise prefix of b, read off the text of the two paths,
\* which have no repeated and no trailing separators
ComponentPrefix(a, b) ==
    IF a = <<>> THEN b = <<>> \/ b[1] # "/"
    ELSE IF a = <<"/">> THEN b # <<>> /\ b[1] = "/"
    ELSE TextInside(b, a)

\* C9 (as stated): in every plan, for any two entries neither local_path
\* is a component-wise prefix of the other.
C9_NonNesting ==
    Planned =>
        \A i, j \in 1..Len(workspaces_to_copy) :
            i # j => ~ComponentPrefix(workspaces_to_copy[i].local_path,
                                      workspaces_to_copy[j].local_path)

\* C9 (amended): in every plan, no entry's local_path is a component-wise
\* prefix of the local_path of an entry appended after it.
C9_NoLaterEntryInsideEarlier ==
    Planned =>
        \A i, j \in 1..Len(workspaces_to_copy) :
            i < j => ~ComponentPrefix(workspaces_to_copy[i].local_path,
                                      workspaces_to_copy[j].local_path)

\* A plan with two workspaces, the first inside the second
C9_Witness ==
    /\ Planned
    /\ Len(workspaces_to_copy) = 2
    /\ ComponentPrefix(workspaces_to_copy[2].local_path,
                       workspaces_to_copy[1].local_path)

\* C10: once the locator has failed for a path, the run has panicked, the
\* planner has returned nothing, and no transfer has been or will be issued.
C10_LocatorFailureFatal ==
    (\E k \in 1..Len(locate_log) : ~locate_log[k].ok) =>
        /\ pc = "panic"
        /\ maybe_patches = "pending"
        /\ rsync_log = <<>>
        /\ ~ENABLED Next

\* The locator failed after an earlier field had been rewritten
C10_Witness ==
    /\ Len(locate_log) = 2
    /\ ~locate_log[2].ok
    /\ Len(field_log) >= 1
    /\ manifest # manifest_content

RewrittenHandles == {field_log[k].handle : k \in Rewritten}

\* C11: the document under edit differs from the input document in nothing
\* but the values of the rewritten `path` fields: the top-level keys, the
\* patch groups and their order, the entries of each group and their order,
\* the way each entry is written and its key, and the value of every entry
\* that was not rewritten are those of the input.
C11_OnlyPathValuesChange ==
    /\ manifest.patch = manifest_content.patch
    /\ manifest.hello = manifest_content.hello
    /\ Len(manifest.groups) = Len(manifest_content.groups)
    /\ \A g \in 1..Len(manifest_content.groups) :
          LET new == manifest.groups[g]
              old == manifest_content.groups[g]
          IN /\ new.form = old.form
             /\ Len(new.entries) = Len(old.entries)
             /\ \A e \in 1..Len(old.entries) :
                   /\ new.entries[e].form = old.entries[e].form
                   /\ new.entries[e].key = old.entries[e].key
                   /\ new.entries[e].val # old.entries[e].val
                        => /\ <<g, e>> \in RewrittenHandles
                           /\ old.entries[e].key = "path"

\* A plan whose manifest holds a rewritten path in front of a git patch and
\* of a path that was not rewritten
C11_Witness ==
    /\ Planned
    /\ \E g \in 1..Len(manifest.groups) :
          /\ Len(manifest.groups[g].entries) = 3
          /\ <<g, 1>> \in RewrittenHandles
          /\ manifest.groups[g].entries[2].key = "git"
          /\ manifest.groups[g].entries[3].form = "table"

TomlCopies == {k \in 1..Len(rsync_log) : rsync_log[k].kind = "toml"}

\* C12: the Cargo.toml transfer is issued only for a plan, as the last
\* command and after one transfer per workspace of the plan, in order, each
\* of which was started and has returned; a run with a plan that completes
\* has issued it exactly once; with an empty workspace list it is the next
\* and first command.
C12_TomlAfterWorkspaces ==
    /\ \A k \in TomlCopies :
          /\ Planned
          /\ k = Len(rsync_log)
          /\ k = Len(workspaces_to_copy) + 1
          /\ \A i \in 1..Len(workspaces_to_copy) :
                /\ rsync_log[i].kind = "workspace"
                /\ rsync_log[i].idx = i
                /\ rsync_log[i].outcome \in {"exit_ok", "exit_failure"}
    /\ (Planned /\ pc = "done") => Cardinality(TomlCopies) = 1
    /\ pc = "done" => (Planned <=> TomlCopies # {})
    /\ (pc = "copy" /\ workspaces_to_copy = <<>>) =>
          /\ rsync_log = <<>>
          /\ ENABLED CopyToml
          /\ ~ENABLED CopyWorkspace

\* A plan of two workspaces was carried out: two copies, then the Cargo.toml
C12_Witness ==
    /\ pc = "done"
    /\ Len(workspaces_to_copy) = 2
    /\ Len(rsync_log) = 3
    /\ rsync_log[3].kind = "toml"

(***************************************************************************)
(* Where the transferred files end up on the build server.                 *)
(***************************************************************************)
\* The directory in which rsync's remote side starts: a relative path of a
\* destination host:path is taken from the login directory
RemoteLoginDir == <<"/", "u">>

\* The path of an rsync destination host:path
RECURSIVE AfterColon(_)
AfterColon(dst) ==
    IF dst = <<>> THEN <<>>
    ELSE IF Head(dst) = ":" THEN Tail(dst)
    ELSE AfterColon(Tail(dst))

\* The components of a path with every `..` applied to what precedes it
RECURSIVE Collapse(_, _)
Collapse(done, cs) ==
    IF cs = <<>> THEN done
    ELSE IF Head(cs) = ParentDir
         THEN Collapse(IF Len(done) > 1 THEN SubSeq(done, 1, Len(done) - 1)
                       ELSE done,
                       Tail(cs))
         ELSE Collapse(Append(done, Head(cs)), Tail(cs))

\* The directory a path denotes when it is read from the directory dir
ResolveFrom(dir, p) ==
    IF IsAbsolute(p) THEN Collapse(<<>>, Components(p))
    ELSE Collapse(dir, Components(p))

\* The directory a workspace transfer fills
CopiedTo(transfer) ==
    ResolveFrom(Components(RemoteLoginDir), AfterColon(transfer.dst))

\* The directory of the transferred Cargo.toml, from which cargo reads the
\* relative `path` values of the manifest
RemoteManifestDir ==
    LET file == ResolveFrom(Components(RemoteLoginDir),
                            AfterColon(RemoteTomlPath))
    IN SubSeq(file, 1, Len(file) - 1)

\* C13: every workspace copied is copied to the directory that its remote_path
\* ../<name> denotes from the remote build directory, which is the directory
\* the rewritten `path` values of the transferred manifest lead into.
C13_CopiedWhereManifestPoints ==
    /\ \A k \in 1..Len(rsync_log) :
          (rsync_log[k].kind = "workspace" /\ rsync_log[k].outcome = "exit_ok") =>
              CopiedTo(rsync_log[k])
                = ResolveFrom(RemoteManifestDir,
                              workspaces_to_copy[rsync_log[k].idx].remote_path)
    /\ (Planned /\ pc = "done") =>
          \A k \in Rewritten :
              \E c \in 1..Len(rsync_log) :
                  /\ rsync_log[c].kind = "workspace"
                  /\ IsPrefixSeq(CopiedTo(rsync_log[c]),
                                 ResolveFrom(RemoteManifestDir,
                                     EntryAt(manifest, field_log[k].handle).val.s))

\* Document order of two handles
Before(h1, h2) == h1[1] < h2[1] \/ (h1[1] = h2[1] /\ h1[2] < h2[2])

\* The fields, in the order processed, that were resolved to workspace i
FieldsOf(i) == {k \in Rewritten : field_log[k].ws = i}

\* C14: a step of planning only appends to the workspace list, leaving the
\* entries it holds as they are and where they are; the fields are
\* processed in document order, the i-th entry of the list was created for
\* the first field resolved to it, entries are in the order of those first
\* fields, and the workspace transfers are issued in the order of the list.
C14_AppendOnlyDiscoveryOrder ==
    /\ [][ /\ Len(workspaces_to_copy') >= Len(workspaces_to_copy)
           /\ \A i \in 1..Len(workspaces_to_copy) :
                 workspaces_to_copy'[i] = workspaces_to_copy[i] ]_vars
    /\ [](\A k, l \in 1..Len(field_log) :
             k < l => Before(field_log[k].handle, field_log[l].handle))
    /\ [](pc # "panic" =>
            \A i \in 1..Len(workspaces_to_copy) :
               /\ FieldsOf(i) # {}
               /\ \A k \in FieldsOf(i) :
                     field_log[k].how = "located"
                       <=> (\A l \in FieldsOf(i) : k <= l)
               /\ \A j \in 1..Len(workspaces_to_copy) :
                     i < j => \E k \in FieldsOf(i) :
                                 \A l \in FieldsOf(j) : k < l)
    /\ [](\A c \in 1..Len(WorkspaceCopies) :
             /\ WorkspaceCopies[c].idx = c
             /\ WorkspaceCopies[c].src
                  = workspaces_to_copy[c].local_path \o <<"/">>)

\* A plan of two workspaces, a field of the first one coming after the
\* field that created the second one, was transferred in list order
C14_Witness ==
    /\ pc = "done"
    /\ Len(workspaces_to_copy) = 2
    /\ Len(field_log) = 3
    /\ field_log[2].ws = 2
    /\ field_log[3].ws = 1
    /\ Len(WorkspaceCopies) = 2

Located == {k \in Rewritten : field_log[k].how = "located"}

\* How many workspaces were known when field_log[k] was processed
KnownBefore(k) == Cardinality({l \in Located : l < k})

\* The workspaces known at that time that contain the field's path
ContainingThen(k) ==
    {i \in 1..KnownBefore(k) :
        TextInside(field_log[k].path, workspaces_to_copy[i].local_path)}

\* C15: a field whose path lies inside one or more known workspaces is
\* rewritten against the earliest-appended of them without a call of the
\* locator; a field is handed to the locator exactly when no known
\* workspace contains its path; a final plan has as many entries as there
\* were locator calls.
C15_FirstMatch ==
    /\ \A k \in Rewritten :
          /\ field_log[k].how = "known" <=> ContainingThen(k) # {}
          /\ field_log[k].how = "known" =>
                /\ field_log[k].ws \in ContainingThen(k)
                /\ \A i \in ContainingThen(k) : field_log[k].ws <= i
          /\ field_log[k].how = "located" =>
                /\ field_log[k].ws = KnownBefore(k) + 1
                /\ locate_log[field_log[k].ws].path = field_log[k].path
    /\ Cardinality(Located) <= Len(locate_log)
    /\ Len(locate_log) <= Cardinality(Located) + 1
    /\ Planned =>
          /\ Len(locate_log) = Len(workspaces_to_copy)
          /\ Len(locate_log) = Cardinality(Located)

\* A third field lay inside both known workspaces and went to the first
C15_Witness ==
    /\ Planned
    /\ Len(field_log) = 3
    /\ field_log[3].how = "known"
    /\ ContainingThen(3) = {1, 2}
    /\ field_log[3].ws = 1
    /\ Len(locate_log) = 2

\* The text of root ends with no name: it is empty, the root directory,
\* or ends with `..`
NoFinalSegment(root) ==
    LET n == Len(root) IN
    \/ root = <<>>
    \/ root = <<"/">>
    \/ /\ n >= 2
       /\ root[n] = "." /\ root[n - 1] = "."
       /\ (n > 2 => root[n - 2] = "/")

\* C16: when the locator answers with a root that has no final segment or
\* is not a component-wise prefix of the path asked about, planning panics
\* at that field: the field keeps its value, the planner returns nothing
\* and no transfer is ever issued; a root that has a final segment has been
\* appended to the workspace list before the panic, a root without one has
\* not.
C16_UnusableRootAborts ==
    \A c \in 1..Len(locate_log) :
        LET call == locate_log[c] IN
        (call.ok /\ (NoFinalSegment(call.root)
                       \/ ~ComponentPrefix(call.root, call.path)))
        => /\ c = Len(locate_log)
           /\ pc = "panic"
           /\ maybe_patches = "pending"
           /\ rsync_log = <<>>
           /\ ~ENABLED Next
           /\ Len(field_log) = next_field - 1
           /\ EntryAt(manifest, patched_paths[next_field]).val.s = call.path
           /\ IF NoFinalSegment(call.root)
              THEN Len(workspaces_to_copy) = c - 1
              ELSE /\ Len(workspaces_to_copy) = c
                   /\ workspaces_to_copy[c].local_path = call.root

\* Planning panicked at its second field on a root outside the field's
\* path, with that root appended as second workspace
C16_Witness ==
    /\ pc = "panic"
    /\ Len(field_log) = 1
    /\ Len(locate_log) = 2
    /\ locate_log[2].ok
    /\ ~ComponentPrefix(locate_log[2].root, locate_log[2].path)
    /\ Len(workspaces_to_copy) = 2
    /\ workspaces_to_copy[2].local_path = locate_log[2].root

====
